---- MODULE Spec2Model ----
(***************************************************************************)
(* A model of src/bot.py: a Telegram bot that lists the formats of a media *)
(* URL (handle_url, fetch_formats), and on the user's choice downloads the *)
(* chosen format and delivers it whole or in parts (download_and_upload,   *)
(* split_and_upload).                                                      *)
(*                                                                         *)
(* Strings are sequences of one-character strings, files are sequences of  *)
(* bytes, the file system is a function from paths to file contents.       *)
(* Sizes are counted in model bytes: TELEGRAM_FILE_LIMIT stands for the    *)
(* 2 * 1024^3 of src/bot.py:21 and every comparison against it is the      *)
(* comparison the code makes.                                              *)
(***************************************************************************)
EXTENDS Integers, Sequences, FiniteSets, TLC

\* ------------------------------------------------------------- bounds

\* The transport's payload ceiling (src/bot.py:21), in model bytes.
TELEGRAM_FILE_LIMIT == 2

\* The longest artifact the resolution engine writes, in model bytes.
MaxFileSize == 5

\* The longest text message a user sends, in characters.
MaxTextLen == 2

\* ------------------------------------------------------------ strings

\* The characters a text message is made of: a letter, the '=' that
\* download_and_upload splits the URL on, the '|' that joins and splits a
\* selection token, '_' (used in file names) and a blank.
TextChar == {"a", "=", "|", "_", " "}

\* The bytes a file is made of.
Byte == {0, 1}

\* The sessions (chats) the dispatcher knows.
Sessions == {1, 2}

SeqsUpTo(S, n) == UNION {[1..k -> S] : k \in 0..n}

Min(a, b) == IF a <= b THEN a ELSE b

\* ceil(a / b) for b > 0.
Ceil(a, b) == (a + b - 1) \div b

\* Python's c in s for a one-character c.
Contains(s, c) == \E i \in 1..Len(s) : s[i] = c

\* The number of occurrences of character c in s.
RECURSIVE Count(_, _)
Count(s, c) ==
  IF s = <<>> THEN 0
  ELSE (IF Head(s) = c THEN 1 ELSE 0) + Count(Tail(s), c)

\* Python's str.strip(): leading and trailing blanks removed.
RECURSIVE LStrip(_)
LStrip(s) ==
  IF s # <<>> /\ Head(s) = " " THEN LStrip(Tail(s)) ELSE s

RECURSIVE RStrip(_)
RStrip(s) ==
  IF s # <<>> /\ s[Len(s)] = " " THEN RStrip(SubSeq(s, 1, Len(s) - 1)) ELSE s

Strip(s) == RStrip(LStrip(s))

\* Python's s.split(d) for a one-character d: the list of the fields between
\* the occurrences of d, empty fields included (so one more field than there
\* are occurrences). Scans s from the left, cur being the field in progress.
RECURSIVE SplitFrom(_, _, _)
SplitFrom(s, d, cur) ==
  IF s = <<>> THEN <<cur>>
  ELSE IF Head(s) = d THEN <<cur>> \o SplitFrom(Tail(s), d, <<>>)
  ELSE SplitFrom(Tail(s), d, Append(cur, Head(s)))

Split(s, d) == SplitFrom(s, d, <<>>)

\* Python's str(n) for n >= 0.
Digits == <<"0", "1", "2", "3", "4", "5", "6", "7", "8", "9">>

RECURSIVE Str(_)
Str(n) ==
  IF n < 10 THEN <<Digits[n + 1]>>
  ELSE Str(n \div 10) \o <<Digits[(n % 10) + 1]>>

\* ------------------------------------------------ the resolution engine

\* A field of a format dictionary that may be missing, or present with the
\* value None, or present with an integer.
Absent == [kind |-> "absent", val |-> 0]
NoneV == [kind |-> "none", val |-> 0]
IntV(n) == [kind |-> "int", val |-> n]

\* The format identifiers the resolution engine reports: opaque strings, one
\* of them holding the character the selection token is split on.
FormatIds == {<<"a">>, <<"b", "|">>}

HeightVals == {Absent, NoneV, IntV(1)}

\* Declared sizes: unreported (no key, or None), or below, at, or one byte
\* above the ceiling.
SizeVals ==
  {Absent, NoneV} \cup {IntV(n) : n \in {0, TELEGRAM_FILE_LIMIT, TELEGRAM_FILE_LIMIT + 1}}

Exts == {<<"m", "p", "4">>}

\* One entry of info["formats"] as the engine returns it.
EngineFormats ==
  [format_id : FormatIds, height : HeightVals, ext : Exts, filesize : SizeVals]

\* The engine's format lists: identifiers are unique within a list.
FormatLists ==
  {q \in SeqsUpTo(EngineFormats, Cardinality(FormatIds)) :
     \A i, j \in 1..Len(q) : q[i].format_id = q[j].format_id => i = j}

\* What ydl.extract_info(url, download=False) does: it raises, or returns an
\* info dictionary without a "formats" key, or one with a format list.
ExtractOutcomes ==
  {[raises |-> TRUE, has_formats |-> FALSE, formats |-> <<>>],
   [raises |-> FALSE, has_formats |-> FALSE, formats |-> <<>>]}
  \cup {[raises |-> FALSE, has_formats |-> TRUE, formats |-> q] : q \in FormatLists}

\* The files ydl.download can write: any non-empty byte sequence.
Contents == SeqsUpTo(Byte, MaxFileSize) \ {<<>>}

\* The proper non-empty prefixes of c: what a download that fails part-way
\* has written.
Prefixes(c) == {SubSeq(c, 1, k) : k \in 1..(Len(c) - 1)}

\* ------------------------------------------------------- fetch_formats

\* f.get("filesize", 0): the default when the key is missing, else the value
\* (None included).
GetFilesize(f) == IF f.filesize.kind = "absent" THEN IntV(0) ELSE f.filesize

\* The comparison of None with an int raises TypeError.
CompareRaises(f) == GetFilesize(f).kind = "none"

\* f.get("filesize", 0) <= TELEGRAM_FILE_LIMIT
Keeps(f) == GetFilesize(f).val <= TELEGRAM_FILE_LIMIT

\* f"{f.get('height', 'Audio')}p" if f.get("height") else "Audio"
Resolution(f) ==
  IF f.height.kind = "int" /\ f.height.val # 0
  THEN Str(f.height.val) \o <<"p">>
  ELSE <<"A", "u", "d", "i", "o">>

CatalogEntry(f) ==
  [format_id |-> f.format_id, resolution |-> Resolution(f), ext |-> f.ext]

\* The value fetch_formats returns: None (ok = FALSE), or a list.
NoCatalog == [ok |-> FALSE, list |-> <<>>]

\* fetch_formats(url), given what extract_info does for the URL. Any exception
\* (extract_info's, or the TypeError of the size comparison) is caught and
\* None is returned.
fetch_formats(x) ==
  LET formats == IF x.has_formats THEN x.formats ELSE <<>>
      kept == SelectSeq(formats, Keeps)
  IN IF x.raises \/ (\E i \in 1..Len(formats) : CompareRaises(formats[i]))
     THEN NoCatalog
     ELSE [ok |-> TRUE, list |-> [i \in 1..Len(kept) |-> CatalogEntry(kept[i])]]

\* A test for None alone ("formats is None").
FalsyNone(r) == ~r.ok

\* Python's "not formats": None and the empty list are both falsy.
Falsy(r) == ~r.ok \/ r.list = <<>>

\* ---------------------------------------------------- selection tokens

BestAudio == <<"b", "e", "s", "t", "a", "u", "d", "i", "o">>

\* A token joined with the character the URL is split on.
TokenEq(u, id) == u \o <<"=">> \o id

\* callback_data=f"{url}|{format_id}" (handle_url).
Token(u, id) == u \o <<"|">> \o id

\* The inline keyboard of handle_url: one button per catalog entry, then the
\* audio-only button.
Buttons(u, list) ==
  [i \in 1..Len(list) |->
     [text |-> list[i].resolution \o <<" ", "-", " ">> \o list[i].ext,
      callback_data |-> Token(u, list[i].format_id)]]
  \o <<[text |-> <<"Audio Only">>, callback_data |-> Token(u, BestAudio)]>>

\* The (url, format_id) pairs the buttons of that keyboard were built from.
ButtonSources(u, list) ==
  [i \in 1..Len(list) |-> <<u, list[i].format_id>>] \o <<(<<u, BestAudio>>)>>

\* ---------------------------------------------------------- file names

DotMp4 == <<".", "m", "p", "4">>
DotPart == <<".", "p", "a", "r", "t">>

\* url.split('=')[-1]
LastField(u) == Split(u, "=")[Len(Split(u, "="))]

\* f"{url.split('=')[-1]}_{format_id}.mp4"
OutputFile(u, id) == LastField(u) \o <<"_">> \o id \o DotMp4

\* f"{file_path}.part{part_number}"
PartFilename(path, n) == path \o DotPart \o Str(n)

\* caption=f"Part {part_number} of the video."
Caption(n) == <<"Part ">> \o Str(n) \o <<" of the video.">>

\* A read that starts one byte late.
ReadSkip(content, pos, n) == SubSeq(content, pos + 2, Min(pos + n, Len(content)))

\* A read that returns up to n + 1 bytes.
ReadOver(content, pos, n) == SubSeq(content, pos + 1, Min(pos + n + 1, Len(content)))

\* f.read(n) on a file object at offset pos: up to n bytes, empty at the end.
Read(content, pos, n) == SubSeq(content, pos + 1, Min(pos + n, Len(content)))

\* ------------------------------------------------------------- state

VARIABLES
  live,          \* the sessions whose updates the dispatcher receives
  fs,            \* the working directory: path -> file content
  pc,            \* per session: where its current handler stands
  out,           \* per session: the transport operations performed, in order
  keyboard,      \* per session: the buttons on the bot's last message
  hurl,          \* handle_url: url
  info,          \* fetch_formats: what extract_info did
  formats,       \* handle_url: formats (the value of fetch_formats)
  chosen,        \* the (url, format_id) the clicked button was built from
  data,          \* download_and_upload: query.data
  url,           \* download_and_upload: url
  format_id,     \* download_and_upload: format_id
  output_file,   \* download_and_upload: output_file
  file_size,     \* download_and_upload: file_size
  artifact,      \* the bytes ydl.download wrote for this session
  downloads,     \* the number of ydl.download calls of this session
  err,           \* the step that raised, "none" if none did
  f,             \* split_and_upload: the open artifact [content, pos]
  chunk,         \* split_and_upload: chunk
  part_number,   \* split_and_upload: part_number
  part_filename, \* split_and_upload: part_filename
  loop           \* the session running on the event loop, 0 when it is idle

urlVars == <<hurl, info, formats>>
dlVars == <<data, url, format_id, output_file, file_size>>
splitVars == <<f, chunk, part_number, part_filename>>
ghostVars == <<chosen, artifact, downloads>>
vars ==
  <<live, fs, pc, out, keyboard, hurl, info, formats, chosen, data, url,
    format_id, output_file, file_size, artifact, downloads, err, f, chunk,
    part_number, part_filename, loop>>

\* One outbound transport operation. text is the message text of a text
\* operation; file and caption are those of a media operation.
Op(op, text, file, caption) ==
  [op |-> op, text |-> text, file |-> file, caption |-> caption]

TextOp(op, text) == Op(op, text, <<>>, <<>>)

NoExtract == [raises |-> FALSE, has_formats |-> FALSE, formats |-> <<>>]
NoHandle == [content |-> <<>>, pos |-> 0]

InitOf(L) ==
  /\ live = L
  /\ fs = <<>>
  /\ pc = [s \in Sessions |-> "idle"]
  /\ out = [s \in Sessions |-> <<>>]
  /\ keyboard = [s \in Sessions |-> <<>>]
  /\ hurl = [s \in Sessions |-> <<>>]
  /\ info = [s \in Sessions |-> NoExtract]
  /\ formats = [s \in Sessions |-> NoCatalog]
  /\ chosen = [s \in Sessions |-> <<(<<>>), (<<>>)>>]
  /\ data = [s \in Sessions |-> <<>>]
  /\ url = [s \in Sessions |-> <<>>]
  /\ format_id = [s \in Sessions |-> <<>>]
  /\ output_file = [s \in Sessions |-> <<>>]
  /\ file_size = [s \in Sessions |-> 0]
  /\ artifact = [s \in Sessions |-> <<>>]
  /\ downloads = [s \in Sessions |-> 0]
  /\ err = [s \in Sessions |-> "none"]
  /\ f = [s \in Sessions |-> NoHandle]
  /\ chunk = [s \in Sessions |-> <<>>]
  /\ part_number = [s \in Sessions |-> 0]
  /\ part_filename = [s \in Sessions |-> <<>>]
  /\ loop = 0

\* One session sends updates.
Init == InitOf({1})

\* ---------------------------------------------------------- handle_url

\* A text message arrives: url = update.message.text.strip(), then the
\* "fetching" notice. Telegram delivers no message that is blank.
TextMessage(s) ==
  /\ pc[s] = "idle"
  /\ \E text \in SeqsUpTo(TextChar, MaxTextLen) :
       /\ Strip(text) # <<>>
       /\ hurl' = [hurl EXCEPT ![s] = Strip(text)]
  /\ out' = [out EXCEPT ![s] = Append(@, TextOp("reply_text", "Fetching available formats..."))]
  /\ pc' = [pc EXCEPT ![s] = "fetch"]
  /\ UNCHANGED <<live, fs, keyboard, info, formats, dlVars, ghostVars, err, splitVars>>

\* formats = fetch_formats(url)
FetchFormats(s) ==
  /\ pc[s] = "fetch"
  /\ \E x \in ExtractOutcomes :
       /\ info' = [info EXCEPT ![s] = x]
       /\ formats' = [formats EXCEPT ![s] = fetch_formats(x)]
  /\ pc' = [pc EXCEPT ![s] = "fetched"]
  /\ UNCHANGED <<live, fs, out, keyboard, hurl, dlVars, ghostVars, err, splitVars>>

\* The rest of handle_url: the failure notice and return, or the keyboard.
Present(s) ==
  /\ pc[s] = "fetched"
  /\ IF Falsy(formats[s])
     THEN /\ out' = [out EXCEPT ![s] =
                       Append(@, TextOp("reply_text", "Could not fetch formats. Please check the URL."))]
          /\ pc' = [pc EXCEPT ![s] = "end"]
          /\ UNCHANGED keyboard
     ELSE /\ keyboard' = [keyboard EXCEPT ![s] = Buttons(hurl[s], formats[s].list)]
          /\ out' = [out EXCEPT ![s] =
                       Append(@, TextOp("reply_markup", "Choose your desired format:"))]
          /\ pc' = [pc EXCEPT ![s] = "choose"]
  /\ UNCHANGED <<live, fs, urlVars, dlVars, ghostVars, err, splitVars>>

\* ------------------------------------------------- download_and_upload

\* The working directory with path holding content.
Put(dir, path, content) ==
  [p \in DOMAIN dir \cup {path} |-> IF p = path THEN content ELSE dir[p]]

\* os.remove(path)
Del(dir, path) == [p \in DOMAIN dir \ {path} |-> dir[p]]

Sent(s, o) == out' = [out EXCEPT ![s] = Append(@, o)]

\* The user presses a button: the transport delivers its callback_data, and
\* the handler acknowledges it (query.answer()).
CallbackQuery(s) ==
  /\ pc[s] = "choose"
  /\ \E i \in 1..Len(keyboard[s]) :
       /\ data' = [data EXCEPT ![s] = keyboard[s][i].callback_data]
       /\ chosen' = [chosen EXCEPT ![s] = ButtonSources(hurl[s], formats[s].list)[i]]
  /\ Sent(s, TextOp("answer", ""))
  /\ hurl' = [hurl EXCEPT ![s] = <<>>]
  /\ info' = [info EXCEPT ![s] = NoExtract]
  /\ formats' = [formats EXCEPT ![s] = NoCatalog]
  /\ pc' = [pc EXCEPT ![s] = "decode"]
  /\ UNCHANGED <<live, fs, keyboard, url, format_id, output_file, file_size,
                 artifact, downloads, err, splitVars>>

\* A decoding that names the artifact after the session as well.
DecodeOwnFile(s) ==
  /\ pc[s] = "decode"
  /\ LET fields == Split(data[s], "|") IN
       IF Len(fields) # 2
       THEN /\ err' = [err EXCEPT ![s] = "unpack"]
            /\ pc' = [pc EXCEPT ![s] = "raised"]
            /\ UNCHANGED <<out, keyboard, url, format_id, output_file>>
       ELSE /\ url' = [url EXCEPT ![s] = fields[1]]
            /\ format_id' = [format_id EXCEPT ![s] = fields[2]]
            /\ Sent(s, TextOp("edit_message_text", "Downloading your video... Please wait."))
            /\ keyboard' = [keyboard EXCEPT ![s] = <<>>]
            /\ output_file' = [output_file EXCEPT ![s] = Str(s) \o OutputFile(fields[1], fields[2])]
            /\ pc' = [pc EXCEPT ![s] = "download"]
            /\ UNCHANGED err
  /\ UNCHANGED <<live, fs, urlVars, data, file_size, ghostVars, splitVars>>

\* url, format_id = query.data.split("|"), outside the try block: with any
\* number of fields but two the unpacking raises ValueError, which leaves the
\* handler. Otherwise the "downloading" notice replaces the keyboard message
\* and output_file is named.
Decode(s) ==
  /\ pc[s] = "decode"
  /\ LET fields == Split(data[s], "|") IN
       IF Len(fields) # 2
       THEN /\ err' = [err EXCEPT ![s] = "unpack"]
            /\ pc' = [pc EXCEPT ![s] = "raised"]
            /\ UNCHANGED <<out, keyboard, url, format_id, output_file>>
       ELSE /\ url' = [url EXCEPT ![s] = fields[1]]
            /\ format_id' = [format_id EXCEPT ![s] = fields[2]]
            /\ Sent(s, TextOp("edit_message_text", "Downloading your video... Please wait."))
            /\ keyboard' = [keyboard EXCEPT ![s] = <<>>]
            /\ output_file' = [output_file EXCEPT ![s] = OutputFile(fields[1], fields[2])]
            /\ pc' = [pc EXCEPT ![s] = "download"]
            /\ UNCHANGED err
  /\ UNCHANGED <<live, fs, urlVars, data, file_size, ghostVars, splitVars>>

Raise(s, step) ==
  /\ err' = [err EXCEPT ![s] = step]
  /\ pc' = [pc EXCEPT ![s] = "except"]

\* ydl.download([url]): the engine writes the whole file, or raises having
\* written nothing, or raises having written a part of the file.
Download(s) ==
  /\ pc[s] = "download"
  /\ downloads' = [downloads EXCEPT ![s] = @ + 1]
  /\ \/ \E c \in Contents :
          /\ fs' = Put(fs, output_file[s], c)
          /\ artifact' = [artifact EXCEPT ![s] = c]
          /\ pc' = [pc EXCEPT ![s] = "getsize"]
          /\ UNCHANGED err
     \/ /\ Raise(s, "download")
        /\ UNCHANGED <<fs, artifact>>
     \/ \E c \in Contents : \E p \in Prefixes(c) :
          /\ fs' = Put(fs, output_file[s], p)
          /\ Raise(s, "download")
          /\ UNCHANGED artifact
  /\ UNCHANGED <<live, out, keyboard, urlVars, dlVars, chosen, splitVars>>

\* A size check that splits an artifact of exactly the ceiling.
GetSizeGe(s) ==
  /\ pc[s] = "getsize"
  /\ IF output_file[s] \notin DOMAIN fs
     THEN /\ Raise(s, "getsize")
          /\ UNCHANGED <<file_size, out>>
     ELSE /\ file_size' = [file_size EXCEPT ![s] = Len(fs[output_file[s]])]
          /\ IF Len(fs[output_file[s]]) >= TELEGRAM_FILE_LIMIT
             THEN /\ Sent(s, TextOp("edit_message_text", "File too large! Splitting into smaller parts..."))
                  /\ pc' = [pc EXCEPT ![s] = "open"]
             ELSE /\ pc' = [pc EXCEPT ![s] = "send_video"]
                  /\ UNCHANGED out
          /\ UNCHANGED err
  /\ UNCHANGED <<live, fs, keyboard, urlVars, data, url, format_id, output_file,
                 ghostVars, splitVars>>

\* A size check that starts the splitting without the notice.
GetSizeQuiet(s) ==
  /\ pc[s] = "getsize"
  /\ IF output_file[s] \notin DOMAIN fs
     THEN /\ Raise(s, "getsize")
          /\ UNCHANGED <<file_size, out>>
     ELSE /\ file_size' = [file_size EXCEPT ![s] = Len(fs[output_file[s]])]
          /\ IF Len(fs[output_file[s]]) > TELEGRAM_FILE_LIMIT
             THEN /\ UNCHANGED out
                  /\ pc' = [pc EXCEPT ![s] = "open"]
             ELSE /\ pc' = [pc EXCEPT ![s] = "send_video"]
                  /\ UNCHANGED out
          /\ UNCHANGED err
  /\ UNCHANGED <<live, fs, keyboard, urlVars, data, url, format_id, output_file,
                 ghostVars, splitVars>>

\* file_size = os.path.getsize(output_file) and the comparison with the
\* ceiling; above it, the "splitting" notice.
GetSize(s) ==
  /\ pc[s] = "getsize"
  /\ IF output_file[s] \notin DOMAIN fs
     THEN /\ Raise(s, "getsize")
          /\ UNCHANGED <<file_size, out>>
     ELSE /\ file_size' = [file_size EXCEPT ![s] = Len(fs[output_file[s]])]
          /\ IF Len(fs[output_file[s]]) > TELEGRAM_FILE_LIMIT
             THEN /\ Sent(s, TextOp("edit_message_text", "File too large! Splitting into smaller parts..."))
                  /\ pc' = [pc EXCEPT ![s] = "open"]
             ELSE /\ pc' = [pc EXCEPT ![s] = "send_video"]
                  /\ UNCHANGED out
          /\ UNCHANGED err
  /\ UNCHANGED <<live, fs, keyboard, urlVars, data, url, format_id, output_file,
                 ghostVars, splitVars>>

\* with open(output_file, "rb") as file: await query.message.reply_video(...)
SendVideo(s) ==
  /\ pc[s] = "send_video"
  /\ \/ /\ output_file[s] \in DOMAIN fs
        /\ Sent(s, Op("reply_video", "", fs[output_file[s]], <<"Here is your video!">>))
        /\ pc' = [pc EXCEPT ![s] = "remove"]
        /\ UNCHANGED err
     \/ /\ Raise(s, "send_video")
        /\ UNCHANGED out
  /\ UNCHANGED <<live, fs, keyboard, urlVars, dlVars, ghostVars, splitVars>>

\* os.remove(output_file), the last statement of the try block.
Remove(s) ==
  /\ pc[s] = "remove"
  /\ IF output_file[s] \notin DOMAIN fs
     THEN /\ Raise(s, "remove")
          /\ UNCHANGED fs
     ELSE /\ fs' = Del(fs, output_file[s])
          /\ pc' = [pc EXCEPT ![s] = "done"]
          /\ UNCHANGED err
  /\ UNCHANGED <<live, out, keyboard, urlVars, dlVars, ghostVars, splitVars>>

\* An except clause that only logs.
ExceptSilent(s) ==
  /\ pc[s] = "except"
  /\ pc' = [pc EXCEPT ![s] = "done"]
  /\ UNCHANGED <<live, fs, out, keyboard, urlVars, dlVars, ghostVars, err, splitVars>>

\* except Exception: the failure notice; the handler returns.
Except(s) ==
  /\ pc[s] = "except"
  /\ Sent(s, TextOp("edit_message_text", "Failed to download or upload the video."))
  /\ pc' = [pc EXCEPT ![s] = "done"]
  /\ UNCHANGED <<live, fs, keyboard, urlVars, dlVars, ghostVars, err, splitVars>>

\* ---------------------------------------------------- split_and_upload

\* part_number = 1; with open(file_path, "rb") as f
OpenArtifact(s) ==
  /\ pc[s] = "open"
  /\ IF output_file[s] \notin DOMAIN fs
     THEN /\ Raise(s, "open")
          /\ UNCHANGED <<f, part_number>>
     ELSE /\ part_number' = [part_number EXCEPT ![s] = 1]
          /\ f' = [f EXCEPT ![s] = [content |-> fs[output_file[s]], pos |-> 0]]
          /\ pc' = [pc EXCEPT ![s] = "read"]
          /\ UNCHANGED err
  /\ UNCHANGED <<live, fs, out, keyboard, urlVars, dlVars, ghostVars, chunk, part_filename>>

\* while chunk := f.read(TELEGRAM_FILE_LIMIT): an empty chunk ends the loop and
\* split_and_upload returns; otherwise part_filename is named.
ReadChunk(s) ==
  /\ pc[s] = "read"
  /\ \/ LET c == Read(f[s].content, f[s].pos, TELEGRAM_FILE_LIMIT) IN
          /\ chunk' = [chunk EXCEPT ![s] = c]
          /\ f' = [f EXCEPT ![s].pos = @ + Len(c)]
          /\ IF c = <<>>
             THEN /\ pc' = [pc EXCEPT ![s] = "remove"]
                  /\ UNCHANGED part_filename
             ELSE /\ part_filename' =
                       [part_filename EXCEPT ![s] = PartFilename(output_file[s], part_number[s])]
                  /\ pc' = [pc EXCEPT ![s] = "write"]
          /\ UNCHANGED err
     \/ /\ Raise(s, "read")
        /\ UNCHANGED <<chunk, f, part_filename>>
  /\ UNCHANGED <<live, fs, out, keyboard, urlVars, dlVars, ghostVars, part_number>>

\* with open(part_filename, "wb") as part_file: part_file.write(chunk). A
\* write that fails leaves the file open() created, holding what was written.
WritePart(s) ==
  /\ pc[s] = "write"
  /\ \/ /\ fs' = Put(fs, part_filename[s], chunk[s])
        /\ pc' = [pc EXCEPT ![s] = "send_part"]
        /\ UNCHANGED err
     \/ \E k \in 0..(Len(chunk[s]) - 1) :
          /\ fs' = Put(fs, part_filename[s], SubSeq(chunk[s], 1, k))
          /\ Raise(s, "write")
  /\ UNCHANGED <<live, out, keyboard, urlVars, dlVars, ghostVars, splitVars>>

\* with open(part_filename, "rb") as part_file: await reply_document(...)
SendPart(s) ==
  /\ pc[s] = "send_part"
  /\ \/ /\ part_filename[s] \in DOMAIN fs
        /\ Sent(s, Op("reply_document", "", fs[part_filename[s]], Caption(part_number[s])))
        /\ pc' = [pc EXCEPT ![s] = "remove_part"]
        /\ UNCHANGED err
     \/ /\ Raise(s, "send_part")
        /\ UNCHANGED out
  /\ UNCHANGED <<live, fs, keyboard, urlVars, dlVars, ghostVars, splitVars>>

\* The end of a loop round that leaves the part file and goes on.
RemovePartKeep(s) ==
  /\ pc[s] = "remove_part"
  /\ part_number' = [part_number EXCEPT ![s] = @ + 1]
  /\ pc' = [pc EXCEPT ![s] = "read"]
  /\ UNCHANGED <<live, fs, err, out, keyboard, urlVars, dlVars, ghostVars, f, chunk, part_filename>>

\* The end of a loop round that does not count the part.
RemovePartSame(s) ==
  /\ pc[s] = "remove_part"
  /\ fs' = Del(fs, part_filename[s])
  /\ pc' = [pc EXCEPT ![s] = "read"]
  /\ UNCHANGED <<live, err, out, keyboard, urlVars, dlVars, ghostVars, splitVars>>

\* os.remove(part_filename); part_number += 1
RemovePart(s) ==
  /\ pc[s] = "remove_part"
  /\ IF part_filename[s] \notin DOMAIN fs
     THEN /\ Raise(s, "remove_part")
          /\ UNCHANGED <<fs, part_number>>
     ELSE /\ fs' = Del(fs, part_filename[s])
          /\ part_number' = [part_number EXCEPT ![s] = @ + 1]
          /\ pc' = [pc EXCEPT ![s] = "read"]
          /\ UNCHANGED err
  /\ UNCHANGED <<live, out, keyboard, urlVars, dlVars, ghostVars, f, chunk, part_filename>>

\* ------------------------------------------------------ specification

\* The dispatcher (webhook, process_update) runs one step of one session's
\* handler; each update is processed on a thread of its own (app.run), so no
\* session waits for the event loop of another.
Next ==
  \/ \E s \in live : TextMessage(s) /\ UNCHANGED loop
  \/ \E s \in live : FetchFormats(s) /\ UNCHANGED loop
  \/ \E s \in live : Present(s) /\ UNCHANGED loop
  \/ \E s \in live : CallbackQuery(s) /\ UNCHANGED loop
  \/ \E s \in live : Decode(s) /\ UNCHANGED loop
  \/ \E s \in live : Download(s) /\ UNCHANGED loop
  \/ \E s \in live : GetSize(s) /\ UNCHANGED loop
  \/ \E s \in live : SendVideo(s) /\ UNCHANGED loop
  \/ \E s \in live : Remove(s) /\ UNCHANGED loop
  \/ \E s \in live : Except(s) /\ UNCHANGED loop
  \/ \E s \in live : OpenArtifact(s) /\ UNCHANGED loop
  \/ \E s \in live : ReadChunk(s) /\ UNCHANGED loop
  \/ \E s \in live : WritePart(s) /\ UNCHANGED loop
  \/ \E s \in live : SendPart(s) /\ UNCHANGED loop
  \/ \E s \in live : RemovePart(s) /\ UNCHANGED loop

Spec == Init /\ [][Next]_vars

\* Every call returns: a handler that can take a step eventually takes one.
SpecFair == Spec /\ WF_vars(Next)

\* ------------------------------------------------- concurrent sessions

\* The URLs of the concurrent sessions: two that differ and end in the same
\* "="-field.
ConcUrls == {<<"a">>, <<"=", "a">>}

\* What extract_info returns for them: one format, within the ceiling.
ConcExtract ==
  [raises |-> FALSE, has_formats |-> TRUE,
   formats |-> <<[format_id |-> <<"a">>, height |-> IntV(1),
                  ext |-> <<"m", "p", "4">>, filesize |-> IntV(0)]>>]

\* Both sessions have been through handle_url and see their keyboards.
InitConc ==
  \E u \in [Sessions -> ConcUrls] :
    /\ live = Sessions
    /\ fs = <<>>
    /\ pc = [s \in Sessions |-> "choose"]
    /\ out = [s \in Sessions |->
                <<TextOp("reply_text", "Fetching available formats..."),
                  TextOp("reply_markup", "Choose your desired format:")>>]
    /\ keyboard = [s \in Sessions |-> Buttons(u[s], fetch_formats(ConcExtract).list)]
    /\ hurl = u
    /\ info = [s \in Sessions |-> ConcExtract]
    /\ formats = [s \in Sessions |-> fetch_formats(ConcExtract)]
    /\ chosen = [s \in Sessions |-> <<(<<>>), (<<>>)>>]
    /\ data = [s \in Sessions |-> <<>>]
    /\ url = [s \in Sessions |-> <<>>]
    /\ format_id = [s \in Sessions |-> <<>>]
    /\ output_file = [s \in Sessions |-> <<>>]
    /\ file_size = [s \in Sessions |-> 0]
    /\ artifact = [s \in Sessions |-> <<>>]
    /\ downloads = [s \in Sessions |-> 0]
    /\ err = [s \in Sessions |-> "none"]
    /\ f = [s \in Sessions |-> NoHandle]
    /\ chunk = [s \in Sessions |-> <<>>]
    /\ part_number = [s \in Sessions |-> 0]
    /\ part_filename = [s \in Sessions |-> <<>>]
    /\ loop = 0

\* The bytes the engine writes for session s are told from those of any
\* other session: every byte is s - 1.
Tagged(s) == {c \in Contents : \A i \in 1..Len(c) : c[i] = s - 1}

\* ydl.download([url]) of session s: a whole file of one byte or of one byte
\* above the ceiling, or a failure, each written in the session's bytes.
DownloadTagged(s) ==
  /\ Download(s)
  /\ fs' # fs => fs'[output_file[s]] \in Tagged(s)
  /\ artifact'[s] # <<>> => Len(artifact'[s]) \in {1, TELEGRAM_FILE_LIMIT + 1}

\* The handlers of download_and_upload of the sessions, each update processed
\* on its own thread: any interleaving of their steps.
NextConc ==
  \/ \E s \in live : CallbackQuery(s) /\ UNCHANGED loop
  \/ \E s \in live : Decode(s) /\ UNCHANGED loop
  \/ \E s \in live : DownloadTagged(s) /\ UNCHANGED loop
  \/ \E s \in live : GetSize(s) /\ UNCHANGED loop
  \/ \E s \in live : SendVideo(s) /\ UNCHANGED loop
  \/ \E s \in live : Remove(s) /\ UNCHANGED loop
  \/ \E s \in live : Except(s) /\ UNCHANGED loop
  \/ \E s \in live : OpenArtifact(s) /\ UNCHANGED loop
  \/ \E s \in live : ReadChunk(s) /\ UNCHANGED loop
  \/ \E s \in live : WritePart(s) /\ UNCHANGED loop
  \/ \E s \in live : SendPart(s) /\ UNCHANGED loop
  \/ \E s \in live : RemovePart(s) /\ UNCHANGED loop

SpecConc == InitConc /\ [][NextConc]_vars

\* ------------------------------------------- single-threaded dispatcher

\* The handler of s has not ended.
Unfinished(s) == pc[s] \notin {"idle", "end", "done", "raised"}

\* The idle event loop starts the handler of a session's pending update, or
\* resumes a handler whose awaited call has completed.
Dispatch(s) ==
  /\ loop = 0
  /\ Unfinished(s)
  /\ loop' = s
  /\ UNCHANGED <<live, fs, pc, out, keyboard, urlVars, dlVars, ghostVars, err, splitVars>>

\* All handlers run as coroutines of one event loop. A step that ends in an
\* await (query.answer, edit_message_text, reply_video, reply_document) or
\* in the handler's return gives the loop up; ydl.download, os.path.getsize,
\* open, f.read, part_file.write and os.remove are plain calls, and the
\* handler keeps the loop across them.
NextLoop ==
  \/ \E s \in live : Dispatch(s)
  \/ \E s \in live : loop = s /\ CallbackQuery(s) /\ loop' = 0
  \/ \E s \in live : loop = s /\ Decode(s) /\ loop' = 0
  \/ \E s \in live : loop = s /\ DownloadTagged(s) /\ loop' = s
  \/ \E s \in live : loop = s /\ GetSize(s) /\ loop' = (IF pc'[s] = "open" THEN 0 ELSE s)
  \/ \E s \in live : loop = s /\ SendVideo(s) /\ loop' = (IF pc'[s] = "remove" THEN 0 ELSE s)
  \/ \E s \in live : loop = s /\ Remove(s) /\ loop' = (IF pc'[s] = "done" THEN 0 ELSE s)
  \/ \E s \in live : loop = s /\ Except(s) /\ loop' = 0
  \/ \E s \in live : loop = s /\ OpenArtifact(s) /\ loop' = s
  \/ \E s \in live : loop = s /\ ReadChunk(s) /\ loop' = s
  \/ \E s \in live : loop = s /\ WritePart(s) /\ loop' = s
  \/ \E s \in live : loop = s /\ SendPart(s) /\ loop' = (IF pc'[s] = "remove_part" THEN 0 ELSE s)
  \/ \E s \in live : loop = s /\ RemovePart(s) /\ loop' = s

SpecLoop == InitConc /\ [][NextLoop]_vars

\* ------------------------------------------------------- observations

IsDocument(o) == o.op = "reply_document"
IsVideo(o) == o.op = "reply_video"

\* The parts sent to the session (reply_document), and the whole deliveries
\* (reply_video), in the order they were sent.
Docs(s) == SelectSeq(out[s], IsDocument)
Videos(s) == SelectSeq(out[s], IsVideo)

FailureNotice == "Failed to download or upload the video."

\* The session was told that its download or upload failed.
FailureSurfaced(s) == \E i \in 1..Len(out[s]) : out[s][i].text = FailureNotice

\* Every part file name a run on path can use.
PartPaths(path) == {PartFilename(path, n) : n \in 1..(MaxFileSize + 1)}

\* The part files of the session's artifact that exist.
PartFiles(s) == PartPaths(output_file[s]) \cap DOMAIN fs

\* The k-th block of ceiling-sized blocks of content.
Block(content, k) ==
  SubSeq(content, (k - 1) * TELEGRAM_FILE_LIMIT + 1,
         Min(k * TELEGRAM_FILE_LIMIT, Len(content)))

RECURSIVE ConcatFiles(_)
ConcatFiles(ds) ==
  IF ds = <<>> THEN <<>> ELSE Head(ds).file \o ConcatFiles(Tail(ds))

\* The handler of the session's callback has ended without error.
Delivered(s) == pc[s] = "done" /\ err[s] = "none"

\* ---------------------------------------------------------------- C1

\* C1 (as claimed): after any run of the delivery stage (the download having
\* succeeded), ended in success or in a failure of reading, writing or
\* sending, neither the artifact nor any of its part files is in storage.
ClaimC1 ==
  \A s \in live :
    (pc[s] = "done" /\ err[s] # "download")
      => (output_file[s] \notin DOMAIN fs /\ PartFiles(s) = {})

\* ---------------------------------------------------------------- C2

\* C2 (as claimed): when the download raises, the failure is surfaced to the
\* user and no artifact file, partial or whole, is in storage when the
\* handler has returned.
ClaimC2 ==
  \A s \in live :
    (pc[s] = "done" /\ err[s] = "download")
      => (FailureSurfaced(s) /\ output_file[s] \notin DOMAIN fs)

\* ---------------------------------------------------------------- C3

\* C3: a delivery that meets no error sends exactly ceil(S / C) parts when the
\* artifact size S exceeds the ceiling C, and no part and one whole delivery
\* when S <= C; no part that is ever sent has zero length.
TheoremC3 ==
  \A s \in live :
    /\ Delivered(s) =>
         LET S == Len(artifact[s])
             C == TELEGRAM_FILE_LIMIT
         IN /\ Len(Docs(s)) = (IF S > C THEN Ceil(S, C) ELSE 0)
            /\ Len(Videos(s)) = (IF S > C THEN 0 ELSE 1)
    /\ \A k \in 1..Len(Docs(s)) : Len(Docs(s)[k].file) > 0

\* An artifact of exactly two ceilings was delivered without error.
WitnessC3 ==
  \E s \in live :
    /\ Delivered(s)
    /\ Len(artifact[s]) = 2 * TELEGRAM_FILE_LIMIT
    /\ Len(Docs(s)) = 2

\* ---------------------------------------------------------------- C4

\* C4: when an artifact was delivered in parts without error, the parts
\* concatenated in part-number order are the artifact's bytes, every part is
\* at most the ceiling, and every part but the last is exactly the ceiling.
TheoremC4 ==
  \A s \in live :
    (Delivered(s) /\ Len(artifact[s]) > TELEGRAM_FILE_LIMIT) =>
      LET ds == Docs(s) IN
        /\ \A k \in 1..Len(ds) : ds[k].caption = Caption(k)
        /\ ConcatFiles(ds) = artifact[s]
        /\ \A k \in 1..Len(ds) :
             /\ Len(ds[k].file) <= TELEGRAM_FILE_LIMIT
             /\ k < Len(ds) => Len(ds[k].file) = TELEGRAM_FILE_LIMIT

\* An artifact whose first and last bytes differ was delivered in parts, the
\* last part smaller than the ceiling.
WitnessC4 ==
  \E s \in live :
    /\ Delivered(s)
    /\ Len(Docs(s)) >= 2
    /\ artifact[s][1] # artifact[s][Len(artifact[s])]
    /\ Len(Docs(s)[Len(Docs(s))].file) < TELEGRAM_FILE_LIMIT

\* ---------------------------------------------------------------- C5

\* C5 (as claimed): when writing or sending part N has failed and the handler
\* has returned, no part beyond N was sent, parts 1..N-1 are delivered, and
\* the part file of part N and the artifact are both removed.
ClaimC5 ==
  \A s \in live :
    (pc[s] = "done" /\ err[s] \in {"write", "send_part"}) =>
      /\ Len(Docs(s)) = part_number[s] - 1
      /\ \A k \in 1..Len(Docs(s)) : Docs(s)[k].file = Block(artifact[s], k)
      /\ PartFilename(output_file[s], part_number[s]) \notin DOMAIN fs
      /\ output_file[s] \notin DOMAIN fs

\* ---------------------------------------------------------------- C6

\* C6: at every instant of a split_and_upload run at most one part file of
\* the artifact exists, and none exists when the next part is read or is about
\* to be written.
TheoremC6 ==
  \A s \in live :
    /\ Cardinality(PartFiles(s)) <= 1
    /\ pc[s] \in {"read", "write"} => PartFiles(s) = {}

\* Part 2 is in storage, part 1 having been sent and removed.
WitnessC6 ==
  \E s \in live :
    /\ pc[s] = "send_part"
    /\ part_number[s] = 2
    /\ PartFiles(s) = {PartFilename(output_file[s], 2)}

\* ---------------------------------------------------------------- C7

\* C7: the parts sent are numbered 1, 2, ... in the order of sending, part k
\* holds the k-th block of the artifact and is labelled k; and while part N
\* is read, written or sent, exactly the parts 1..N-1 have been sent and
\* nothing beyond part N has been read from the artifact.
TheoremC7 ==
  \A s \in live :
    /\ \A k \in 1..Len(Docs(s)) :
         /\ Docs(s)[k].caption = Caption(k)
         /\ Docs(s)[k].file = Block(artifact[s], k)
    /\ pc[s] = "read" =>
         /\ Len(Docs(s)) = part_number[s] - 1
         /\ f[s].pos = Min((part_number[s] - 1) * TELEGRAM_FILE_LIMIT, Len(artifact[s]))
    /\ pc[s] \in {"write", "send_part"} =>
         /\ Len(Docs(s)) = part_number[s] - 1
         /\ chunk[s] = Block(artifact[s], part_number[s])
         /\ f[s].pos = Min(part_number[s] * TELEGRAM_FILE_LIMIT, Len(artifact[s]))
    /\ pc[s] = "remove_part" =>
         /\ Len(Docs(s)) = part_number[s]
         /\ f[s].pos = Min(part_number[s] * TELEGRAM_FILE_LIMIT, Len(artifact[s]))

\* Part 2 has been sent after part 1, and the artifact has more bytes.
WitnessC7 ==
  \E s \in live :
    /\ pc[s] = "remove_part"
    /\ part_number[s] = 2
    /\ Len(Docs(s)) = 2
    /\ f[s].pos < Len(artifact[s])

\* ---------------------------------------------------------------- C8

\* The catalog fetch_formats returned holds an entry for engine format fm.
Kept(s, fm) ==
  /\ formats[s].ok
  /\ \E j \in 1..Len(formats[s].list) : formats[s].list[j].format_id = fm.format_id

\* C8 (as claimed): for every list the engine returns, every kept candidate
\* whose size is reported has a size of at most the ceiling, a candidate of
\* exactly the ceiling is kept and one of the ceiling plus one is not.
ClaimC8 ==
  \A s \in live :
    (pc[s] = "fetched" /\ ~info[s].raises) =>
      \A i \in 1..Len(info[s].formats) :
        LET fm == info[s].formats[i] IN
          /\ (Kept(s, fm) /\ fm.filesize.kind = "int")
               => fm.filesize.val <= TELEGRAM_FILE_LIMIT
          /\ fm.filesize = IntV(TELEGRAM_FILE_LIMIT) => Kept(s, fm)
          /\ fm.filesize = IntV(TELEGRAM_FILE_LIMIT + 1) => ~Kept(s, fm)

\* ---------------------------------------------------------------- C9

\* The handler of the session's callback is past the decoding of query.data.
Decoded(s) ==
  pc[s] \notin {"idle", "fetch", "fetched", "end", "choose", "decode"}

\* The token the session's button carried round-trips: it decoded, to the
\* pair it was built from.
RoundTrip(s) ==
  /\ pc[s] # "raised"
  /\ url[s] = chosen[s][1]
  /\ format_id[s] = chosen[s][2]

\* C9 (as claimed): for every URL without '|' and every format identifier,
\* decoding the token built from (url, id) yields (url, id).
ClaimC9 ==
  \A s \in live :
    (Decoded(s) /\ ~Contains(chosen[s][1], "|")) => RoundTrip(s)

\* C9 (amended): for every URL and every format identifier neither of which
\* holds '|', decoding the token built from (url, id) yields (url, id).
TheoremC9 ==
  \A s \in live :
    (Decoded(s) /\ ~Contains(chosen[s][1], "|") /\ ~Contains(chosen[s][2], "|"))
      => RoundTrip(s)

\* A token built from a URL that holds '=' and an engine identifier has been
\* decoded.
WitnessC9 ==
  \E s \in live :
    /\ pc[s] = "download"
    /\ Contains(chosen[s][1], "=")
    /\ chosen[s][2] \in FormatIds
    /\ RoundTrip(s)

\* --------------------------------------------------------------- C10

\* The payload does not consist of exactly two non-empty fields around one
\* '|'.
Malformed(d) ==
  \/ Count(d, "|") # 1
  \/ d[1] = "|"
  \/ d[Len(d)] = "|"

\* C10 (as claimed): when the payload is malformed and the handler has ended,
\* a failure message was surfaced, the download was never invoked and no file
\* was created.
ClaimC10 ==
  \A s \in live :
    (pc[s] \in {"done", "raised"} /\ Malformed(data[s])) =>
      /\ FailureSurfaced(s)
      /\ downloads[s] = 0
      /\ fs = <<>>

\* --------------------------------------------------------------- C11

CouldNotFetch == "Could not fetch formats. Please check the URL."

IsMarkup(o) == o.op = "reply_markup"

\* The resolution engine could not enumerate formats for the session's URL:
\* it raised (bad URL, network failure) or it found no formats.
CannotEnumerate(s) ==
  info[s].raises \/ ~info[s].has_formats \/ info[s].formats = <<>>

\* C11: when the resolution engine cannot enumerate formats, whatever the
\* cause, handle_url ends having sent the could-not-fetch message last and no
\* interactive choice.
TheoremC11 ==
  \A s \in live :
    (pc[s] \in {"choose", "end"} /\ CannotEnumerate(s)) =>
      /\ pc[s] = "end"
      /\ out[s][Len(out[s])] = TextOp("reply_text", CouldNotFetch)
      /\ SelectSeq(out[s], IsMarkup) = <<>>
      /\ keyboard[s] = <<>>

\* handle_url has ended for a URL of which the engine found no formats.
WitnessC11 ==
  \E s \in live :
    /\ pc[s] = "end"
    /\ ~info[s].raises
    /\ info[s].has_formats
    /\ info[s].formats = <<>>

\* --------------------------------------------------------------- C12

\* The engine reported a size for fm and it is above the ceiling.
Oversized(fm) ==
  fm.filesize.kind = "int" /\ fm.filesize.val > TELEGRAM_FILE_LIMIT

\* The engine formats the size filter is to retain, in order.
NotOversized(fm) == ~Oversized(fm)
Retained(s) == SelectSeq(info[s].formats, NotOversized)

\* No format of the engine's list has a size of None (the case of C14, in
\* which fetch_formats returns no list at all).
SizesComparable(s) ==
  \A i \in 1..Len(info[s].formats) : info[s].formats[i].filesize.kind # "none"

\* C12 (as claimed, on the lists fetch_formats can filter): whenever the
\* engine enumerates the formats of a URL, the choice presented holds one
\* control per retained candidate, in order, then one audio-only control with
\* identifier "bestaudio", however many candidates the size filter removed.
ClaimC12 ==
  \A s \in live :
    (pc[s] \in {"choose", "end"} /\ ~CannotEnumerate(s) /\ SizesComparable(s)) =>
      /\ Len(keyboard[s]) = Len(Retained(s)) + 1
      /\ \A i \in 1..Len(Retained(s)) :
           keyboard[s][i].callback_data = Token(hurl[s], Retained(s)[i].format_id)
      /\ keyboard[s][Len(keyboard[s])].callback_data = Token(hurl[s], BestAudio)

\* --------------------------------------------------------------- C13

\* C13: an artifact of at most the ceiling is never split (no part is sent, no
\* part file exists); it is sent once as a video while it is in storage, and
\* when the handler has ended without error it was sent exactly once, whole,
\* and is removed.
TheoremC13 ==
  \A s \in live :
    (artifact[s] # <<>> /\ Len(artifact[s]) <= TELEGRAM_FILE_LIMIT) =>
      /\ Docs(s) = <<>>
      /\ PartFiles(s) = {}
      /\ Len(Videos(s)) <= 1
      /\ pc[s] \in {"send_video", "remove"} => output_file[s] \in DOMAIN fs
      /\ pc[s] = "remove" => Len(Videos(s)) = 1
      /\ Delivered(s) =>
           /\ Len(Videos(s)) = 1
           /\ Videos(s)[1].file = artifact[s]
           /\ output_file[s] \notin DOMAIN fs

\* An artifact of exactly the ceiling was delivered whole and removed.
WitnessC13 ==
  \E s \in live :
    /\ Delivered(s)
    /\ Len(artifact[s]) = TELEGRAM_FILE_LIMIT
    /\ Len(Videos(s)) = 1

\* --------------------------------------------------------------- C14

\* C14 (as claimed): fetch_formats keeps every format whose size is unreported
\* (no size field, or a size of None) and every format whose size is at most
\* the ceiling; an unreported size never makes the request fail.
ClaimC14 ==
  \A s \in live :
    (pc[s] = "fetched" /\ ~info[s].raises) =>
      /\ formats[s].ok
      /\ \A i \in 1..Len(info[s].formats) :
           ~Oversized(info[s].formats[i]) => Kept(s, info[s].formats[i])

\* --------------------------------------------------------------- C15

\* The callback of s has been decoded and its artifact named.
Named(s) == Decoded(s) /\ pc[s] # "raised"

SamePair(s, t) ==
  /\ Named(s) /\ Named(t)
  /\ url[s] = url[t]
  /\ format_id[s] = format_id[t]

\* s has delivered bytes that are not the bytes its own download wrote.
DeliversForeign(s) ==
  \/ \E k \in 1..Len(Videos(s)) : Videos(s)[k].file # artifact[s]
  \/ \E k \in 1..Len(Docs(s)) : Docs(s)[k].file # Block(artifact[s], k)

\* s has failed on a file that was no longer there.
FailsOnMissing(s) == err[s] \in {"getsize", "open", "remove", "remove_part"}

\* C15: two concurrent sessions with the same URL and encoding identifier use
\* the same artifact path and the same part paths; a session delivers bytes
\* it did not retrieve, or fails on a missing file, only when another session
\* works on its artifact path. That such an interleaving exists is the
\* reachable state WitnessC15.
TheoremC15 ==
  \A s \in live :
    /\ \A t \in live \ {s} :
         SamePair(s, t) =>
           /\ output_file[s] = output_file[t]
           /\ PartPaths(output_file[s]) = PartPaths(output_file[t])
    /\ (DeliversForeign(s) \/ FailsOnMissing(s)) =>
         \E t \in live \ {s} : Named(t) /\ output_file[t] = output_file[s]

\* Two sessions chose the same URL and identifier; one delivered the bytes
\* the other wrote over its artifact and removed the file, and the other,
\* whose download had succeeded, failed on measuring the file that was gone.
WitnessC15 ==
  \E s \in live : \E t \in live \ {s} :
    /\ SamePair(s, t)
    /\ pc[s] = "done" /\ err[s] = "none"
    /\ DeliversForeign(s)
    /\ artifact[t] # <<>>
    /\ pc[t] = "done" /\ err[t] = "getsize"

\* --------------------------------------------------------------- C16

\* s is on the event loop, inside retrieval or the file I/O of a chunk.
InBlockingCall(s) == loop = s /\ pc[s] \in {"download", "read", "write"}

\* C16 (as claimed): on a single-threaded dispatcher, while one session is
\* inside retrieval or chunk file I/O, the pending event of another session
\* can be handled.
ClaimC16 ==
  \A s \in live : \A t \in live \ {s} :
    (InBlockingCall(s) /\ pc[t] = "choose") => ENABLED Dispatch(t)

\* --------------------------------------------------------------- C17

\* The steps of retrieval and delivery that can raise inside the try block.
PipelineFailures == {"download", "read", "write", "send_part", "send_video"}

IsFailureNotice(o) == o.text = FailureNotice

SplitNotice == "File too large! Splitting into smaller parts..."

InSplit(s) == pc[s] \in {"open", "read", "write", "send_part", "remove_part"}

\* C18: in a chunked delivery the splitting notice precedes every part that
\* is written or sent, the artifact is in storage throughout the loop, and it
\* is gone only when all ceil(S / C) parts have been delivered.
TheoremC18 ==
  \A s \in live :
    /\ (InSplit(s) \/ Docs(s) # <<>> \/ PartFiles(s) # {}) =>
         /\ \E j \in 1..Len(out[s]) : out[s][j].text = SplitNotice
         /\ \A i, j \in 1..Len(out[s]) :
              (IsDocument(out[s][i]) /\ out[s][j].text = SplitNotice) => j < i
    /\ InSplit(s) => output_file[s] \in DOMAIN fs
    /\ (Len(artifact[s]) > TELEGRAM_FILE_LIMIT /\ output_file[s] \notin DOMAIN fs) =>
         /\ Delivered(s)
         /\ Len(Docs(s)) = Ceil(Len(artifact[s]), TELEGRAM_FILE_LIMIT)
    /\ (Delivered(s) /\ Len(artifact[s]) > TELEGRAM_FILE_LIMIT) =>
         output_file[s] \notin DOMAIN fs

\* All parts of an artifact above the ceiling have been delivered and the
\* artifact is still in storage, about to be removed.
WitnessC18 ==
  \E s \in live :
    /\ pc[s] = "remove"
    /\ Len(artifact[s]) > TELEGRAM_FILE_LIMIT
    /\ Len(Docs(s)) = Ceil(Len(artifact[s]), TELEGRAM_FILE_LIMIT)
    /\ output_file[s] \in DOMAIN fs

\* --------------------------------------------------------------- C19

\* The rounds of the loop of split_and_upload: at most ceil(S / C) are begun,
\* and the chunk of round N is not empty and starts where round N-1 ended.
BoundedRounds(s) ==
  LET rounds == Ceil(Len(f[s].content), TELEGRAM_FILE_LIMIT) IN
    /\ pc[s] = "read" => part_number[s] - 1 <= rounds
    /\ pc[s] \in {"write", "send_part", "remove_part"} =>
         /\ part_number[s] <= rounds
         /\ chunk[s] # <<>>
         /\ f[s].pos - Len(chunk[s]) = (part_number[s] - 1) * TELEGRAM_FILE_LIMIT

\* C19: split_and_upload terminates: once the artifact is opened the loop is
\* eventually left (by its end or by an exception), within ceil(S / C)
\* rounds, each consuming a non-empty block no earlier round consumed.
TheoremC19 ==
  /\ [](\A s \in Sessions : BoundedRounds(s))
  /\ \A s \in Sessions :
       (s \in live /\ pc[s] = "open") ~> (pc[s] \in {"remove", "except"})

\* The loop has ended after exactly ceil(S / C) rounds.
WitnessC19 ==
  \E s \in live :
    /\ pc[s] = "remove"
    /\ err[s] = "none"
    /\ Len(f[s].content) > TELEGRAM_FILE_LIMIT
    /\ part_number[s] = Ceil(Len(f[s].content), TELEGRAM_FILE_LIMIT) + 1

\* --------------------------------------------------------------- C20

\* Every file a run for the artifact path can touch.
WorkingFiles(path) == {path} \cup PartPaths(path)

\* C20 (as claimed): two sessions whose (URL, identifier) pairs differ share
\* no working file: neither the artifact path nor any part path.
ClaimC20 ==
  \A s \in live : \A t \in live \ {s} :
    (Named(s) /\ Named(t) /\ <<url[s], format_id[s]>> # <<url[t], format_id[t]>>)
      => WorkingFiles(output_file[s]) \cap WorkingFiles(output_file[t]) = {}

====
